---- MODULE Spec2Model ----
(***************************************************************************)
(* Root-span attribute propagation for OpenTelemetry (Node.js).            *)
(*                                                                         *)
(* The repository holds two generations of the same program:               *)
(*   "ts" : src/tracing.ts, and its JavaScript twins src/unnamed/part_000  *)
(*          and src/tracing.js lines 190-277.  RootSpanContextProcessor    *)
(*          detects a root by "the parent context carries no span" and     *)
(*          registers first-writer-wins; RootSpanUtil falls back to the    *)
(*          active span.                                                   *)
(*   "js" : src/tracing.js lines 1-189, the module src/app.js requires.    *)
(*          RootSpanContextProcessor detects a root by "no parentSpanId",  *)
(*          registers unconditionally; RootSpanUtil has no fallback.       *)
(* A behaviour runs one of the two; the variable `variant` says which.     *)
(*                                                                         *)
(* A span is identified by a number.  A JavaScript Map is a set of         *)
(* <<key, value>> pairs, an attribute object a function whose DOMAIN is    *)
(* the set of its own keys.  span.setAttribute is recorded as a write to   *)
(* the span's attribute object.                                            *)
(***************************************************************************)
EXTENDS Integers, Sequences, FiniteSets, TLC

\* ---------------------------------------------------------------- bounds
MaxCalls == 2           \* calls business logic makes (setAttributes, RootSpanUtil.*)

Variants == {"ts", "js"}
TraceIds == {"t1", "t2"}
SpanIds == {1, 2, 3}    \* the spans of a behaviour, numbered as they are created

\* JavaScript `undefined`, and the TypeError a property read of undefined throws
undefined == 0
TypeError == "TypeError"

EmptyObject == [k \in {} |-> ""]

\* Attribute objects business logic passes to span.setAttributes: keys of
\* every kind the propagation policy tells apart.
AttrObjects ==
    { ("error_code" :> "E1") @@ ("custom_attribute" :> "x") @@ ("unrelated" :> "y"),
      ("custom_attribute" :> "z") @@ ("merchant_name" :> "m") @@ ("errors" :> "n") }

\* (key, value) pairs business logic passes to RootSpanUtil.setRootAttribute.
RootAttrs == { <<"custom_attribute", "r">>, <<"route.path", "p">> }

\* Baggage decoded from the inbound request.
Baggages == {EmptyObject, ("tenant" :> "acme")}

\* The requests of trace t1 carry baggage, those of trace t2 carry none.
InboundBaggage(t) == IF t = "t1" THEN ("tenant" :> "acme") ELSE EmptyObject

\* What the callback business logic passes to RootSpanUtil.withRootSpan
\* returns: a value, or a promise (the routes of src/app.js pass async functions).
FnResults == {"value", "promise"}

\* A parent context: the span it carries (or undefined) and its baggage.
Contexts == [span : SpanIds \cup {undefined}, baggage : Baggages]

VARIABLES
    variant,        \* which generation of the program runs
    spans,          \* span id -> its identity (Unborn before it is created)
    ended,          \* spans whose end() has been called
    attributes,     \* span id -> attribute object
    rootSpans,      \* RootSpanContextProcessor's Map<traceId, Span>
    rootSpanMap,    \* RootSpanUtil's static Map<traceId, Span>
    calls,          \* number of business-logic calls so far
    last            \* the operation that produced this state

vars == <<variant, spans, ended, attributes, rootSpans, rootSpanMap, calls, last>>

\* ------------------------------------------------------------ JS helpers
MapHas(m, k) == \E e \in m : e[1] = k
MapGet(m, k) == IF MapHas(m, k) THEN (CHOOSE e \in m : e[1] = k)[2] ELSE undefined
MapSet(m, k, v) == {e \in m : e[1] # k} \cup {<<k, v>>}
MapDelete(m, k) == {e \in m : e[1] # k}

\* String.prototype.startsWith
startsWith(k, p) == Len(k) >= Len(p) /\ SubSeq(k, 1, Len(p)) = p

\* Object.assign(obj, src): the keys of src set on obj
Assign(obj, src) ==
    [x \in DOMAIN obj \cup DOMAIN src |-> IF x \in DOMAIN src THEN src[x] ELSE obj[x]]

\* setAttribute that sets the key on every span
setAttributeEverySpan(attrs, s, k, v) == [x \in DOMAIN attrs |-> Assign(attrs[x], k :> v)]

\* span.setAttribute(k, v) and span.setAttributes(obj)
setAttribute(attrs, s, k, v) == [attrs EXCEPT ![s] = Assign(@, k :> v)]
setAttributes(attrs, s, obj) == [attrs EXCEPT ![s] = Assign(@, obj)]

\* The identity of a span id no span has been created for yet.
Unborn == [traceId |-> "", parentSpanId |-> undefined,
           parentContext |-> [span |-> undefined, baggage |-> EmptyObject]]

Created == {s \in SpanIds : spans[s] # Unborn}
Live == Created \ ended

\* span.spanContext().traceId
traceIdOf(s) == IF s = undefined THEN TypeError ELSE spans[s].traceId

\* Trace ids are handed out in order: a root span joins a trace id already in
\* use (two parentless spans of one trace) or takes the next unused one.
UsedTraceIds == {spans[s].traceId : s \in Created}
FreshTraceIds ==
    IF "t1" \notin UsedTraceIds THEN {"t1"}
    ELSE IF "t2" \notin UsedTraceIds THEN {"t2"} ELSE {}

\* Contexts a span of trace t can be started in: the root context with the
\* inbound baggage, or the context of a created span of the trace, which
\* carries that span and the baggage that span was started with.
StartContexts(t) ==
    {c \in Contexts : \/ c.span = undefined /\ c.baggage = InboundBaggage(t)
                      \/ /\ c.span \in Created
                         /\ spans[c.span].traceId = t
                         /\ c.baggage = spans[c.span].parentContext.baggage}

\* The span the tracer creates in context ctx: a context that carries a span
\* makes the new span its child, in its trace; without one the span is a root.
NewSpan(t, ctx) ==
    [traceId |-> IF ctx.span # undefined THEN traceIdOf(ctx.span) ELSE t,
     parentSpanId |-> ctx.span,
     parentContext |-> ctx]

\* What `last` records of an operation: its name, its span argument (for
\* RootSpanUtil the active span), the processor's entry for that span's trace
\* before the operation, the (span, key) attribute writes it made, what it
\* returned and whether it threw; of an onEnd also what the exporter's
\* processor was handed, of a withRootSpan what its callback returned and how
\* often the callback was invoked.
NotForwarded == [span |-> undefined, attributes |-> <<>>, rootSpans |-> {}]

NoOp == [op |-> "init", span |-> undefined, stored |-> undefined,
         written |-> {}, ret |-> undefined, raised |-> FALSE,
         forwarded |-> NotForwarded, fn |-> undefined, invoked |-> 0]

Event(op, s, stored, written, ret, raised) ==
    [op |-> op, span |-> s, stored |-> stored, written |-> written,
     ret |-> ret, raised |-> raised, forwarded |-> NotForwarded,
     fn |-> undefined, invoked |-> 0]

Written(s, obj) == {<<s, k>> : k \in DOMAIN obj}

\* Restriction of an attribute object to the keys in ks
Pick(obj, ks) == [x \in DOMAIN obj \cap ks |-> obj[x]]

\* -------------------------------------------------- the "ts" generation
\* onStartRoots without the check of the parent context
onStartRootsAnySpan(roots, span, id, parentContext) ==
    IF ~MapHas(roots, id) THEN MapSet(roots, id, span) ELSE roots

\* onStart, the registry part: a span whose parent context carries no span
\* is registered unless its trace already has an entry.
onStartRoots(roots, span, id, parentContext) ==
    IF parentContext.span = undefined
    THEN IF ~MapHas(roots, id) THEN MapSet(roots, id, span) ELSE roots
    ELSE roots

\* baggageAttributes that keeps the entry's own key
baggageAttributesBare(baggage) == baggage

\* onStart, the baggage part: every entry (k, v) becomes attribute baggage.<k> = v.
baggageAttributes(baggage) ==
    [x \in {"baggage." \o k : k \in DOMAIN baggage} |->
        baggage[CHOOSE k \in DOMAIN baggage : x = "baggage." \o k]]

\* The propagation policy.
Propagated(k) ==
    startsWith(k, "error_") \/ k = "custom_attribute" \/ k = "merchant_name"

\* onEndRoot that takes an entry of the map whatever its trace
onEndRootAny(roots, traceId) ==
    IF roots = {} THEN undefined ELSE (CHOOSE e \in roots : TRUE)[2]

\* onEnd: the root looked up for the ending span's trace.
onEndRoot(roots, traceId) == MapGet(roots, traceId)

\* onEndEntries that leaves a key the root already has (first write wins)
onEndEntriesKeepFirst(obj, root, span) ==
    IF root # undefined /\ root # span
    THEN Pick(obj, {k \in DOMAIN obj : Propagated(k) /\ k \notin DOMAIN attributes[root]})
    ELSE EmptyObject

\* onEndEntries without the check that the root is another span
onEndEntriesSelf(obj, root, span) ==
    IF root # undefined
    THEN Pick(obj, {k \in DOMAIN obj : Propagated(k)})
    ELSE EmptyObject

\* onEndEntries that marks the span it copies to and does not exempt the
\* root's own end
onEndEntriesMarked(obj, root, span) ==
    IF root # undefined
    THEN Assign(Pick(obj, {k \in DOMAIN obj : Propagated(k)}), "propagated" :> "true")
    ELSE EmptyObject

\* onEndEntries without the check that a root was found
onEndEntriesNoRoot(obj, root, span) ==
    IF root # span
    THEN Pick(obj, {k \in DOMAIN obj : Propagated(k)})
    ELSE EmptyObject

\* onEnd, the propagation part: the entries of the ending span that are set
\* on `root` (none when there is no root, or the root is the ending span).
onEndEntries(obj, root, span) ==
    IF root # undefined /\ root # span
    THEN Pick(obj, {k \in DOMAIN obj : Propagated(k)})
    ELSE EmptyObject

\* onEndRoots that never deletes
onEndRootsKeep(roots, root, span, traceId) == roots

\* onEnd, the cleanup part: the entry goes when the stored root itself ends.
onEndRoots(roots, root, span, traceId) ==
    IF root = span THEN MapDelete(roots, traceId) ELSE roots

\* RootSpanUtil.withRootSpan: the active span becomes the map's entry.
withRootSpanMap(map, active) ==
    IF active # undefined THEN MapSet(map, traceIdOf(active), active) ELSE map

\* RootSpanUtil.withRootSpan, the call of fn: `return fn();` on every path.
withRootSpanFn(active, result) == [invoked |-> 1, ret |-> result]

\* setRootAttributeTarget without the early return
setRootAttributeTargetNoGuard(map, active) ==
    [target |-> IF MapGet(map, traceIdOf(active)) # undefined
                THEN MapGet(map, traceIdOf(active)) ELSE active,
     raised |-> traceIdOf(active) = TypeError]

\* RootSpanUtil.setRootAttribute: the span the attribute is set on.
setRootAttributeTarget(map, active) ==
    IF active = undefined THEN [target |-> undefined, raised |-> FALSE]
    ELSE [target |-> IF MapGet(map, traceIdOf(active)) # undefined
                     THEN MapGet(map, traceIdOf(active)) ELSE active,
          raised |-> traceIdOf(active) = TypeError]

\* RootSpanUtil.getRootSpan
getRootSpan(map, active) ==
    IF active # undefined THEN MapGet(map, traceIdOf(active)) ELSE undefined

\* -------------------------------------------------- the "js" generation
\* onStart: a span without parentSpanId is stored, whatever the map holds.
onStartRootsJs(roots, span, traceId, parentSpanId) ==
    IF parentSpanId = undefined THEN MapSet(roots, traceId, span) ELSE roots

PropagatedJs(k) == startsWith(k, "error_") \/ k = "custom_attribute"

\* onEnd: errorAttributes, collected from the ending span's attributes
errorAttributes(obj) == Pick(obj, {k \in DOMAIN obj : PropagatedJs(k)})

\* onEnd: the entries set on rootSpan
onEndEntriesJs(obj, rootSpan, span) ==
    IF DOMAIN errorAttributes(obj) # {} /\ rootSpan # undefined /\ rootSpan # span
    THEN errorAttributes(obj)
    ELSE EmptyObject

\* onEnd: the entry goes when a span without parentSpanId ends.
onEndRootsJs(roots, traceId, parentSpanId) ==
    IF parentSpanId = undefined THEN MapDelete(roots, traceId) ELSE roots

\* RootSpanUtil.withRootSpan: stored only if the active span has no parent.
withRootSpanMapJs(map, active) ==
    IF active # undefined /\ spans[active].parentSpanId = undefined
    THEN MapSet(map, traceIdOf(active), active) ELSE map

\* withRootSpanFnJs whose try block does not return
withRootSpanFnJsNoReturn(active, result) ==
    IF active # undefined
    THEN [invoked |-> 2, ret |-> result]
    ELSE [invoked |-> 1, ret |-> result]

\* RootSpanUtil.withRootSpan, the call of fn: with an active span
\* `try { return fn(); } finally { }`, without one `return fn();`.
withRootSpanFnJs(active, result) ==
    IF active # undefined
    THEN [invoked |-> 1, ret |-> result]
    ELSE [invoked |-> 1, ret |-> result]

\* RootSpanUtil.setRootAttribute: no fallback to the active span.
setRootAttributeTargetJs(map, active) ==
    IF active # undefined
    THEN [target |-> MapGet(map, traceIdOf(active)),
          raised |-> traceIdOf(active) = TypeError]
    ELSE [target |-> undefined, raised |-> FALSE]

\* ---------------------------------------------------------------- state
Init ==
    /\ variant \in Variants
    /\ spans = [s \in SpanIds |-> Unborn]
    /\ ended = {}
    /\ attributes = [s \in SpanIds |-> EmptyObject]
    /\ rootSpans = {}
    /\ rootSpanMap = {}
    /\ calls = 0
    /\ last = NoOp

\* RootSpanContextProcessor.onStart(span, parentContext)
onStart(op, s, rec) ==
    /\ rootSpans' = IF variant = "ts"
                    THEN onStartRoots(rootSpans, s, rec.traceId, rec.parentContext)
                    ELSE onStartRootsJs(rootSpans, s, rec.traceId, rec.parentSpanId)
    /\ attributes' = setAttributes(attributes, s, baggageAttributes(rec.parentContext.baggage))
    /\ last' = Event(op, s, MapGet(rootSpans, rec.traceId),
                     Written(s, baggageAttributes(rec.parentContext.baggage)),
                     undefined, FALSE)

\* The tracer creates span s (the next unused id) in context ctx; onStart runs.
StartSpan(s, t, ctx) ==
    /\ s \notin Created
    /\ \A r \in SpanIds : r < s => r \in Created
    /\ t \in UsedTraceIds \cup FreshTraceIds
    /\ ctx \in StartContexts(t)
    /\ spans' = [spans EXCEPT ![s] = NewSpan(t, ctx)]
    /\ onStart("onStart", s, NewSpan(t, ctx))
    /\ UNCHANGED <<variant, ended, rootSpanMap, calls>>

\* The start event of a span delivered twice: onStart runs again, right after
\* the first delivery.
StartAgain(s) ==
    /\ s \in Live
    /\ last.op = "onStart" /\ last.span = s
    /\ onStart("onStartAgain", s, spans[s])
    /\ UNCHANGED <<variant, spans, ended, rootSpanMap, calls>>

\* onEnd throws when it calls setAttribute on a root that is undefined; the
\* "js" generation catches whatever its onEnd throws.
onEndRaised(v, root, entries) ==
    v = "ts" /\ root = undefined /\ DOMAIN entries # {}

\* The span processors in the order the exporter is registered first
spanProcessorsExporterFirst == <<"BatchSpanProcessor", "RootSpanContextProcessor">>

\* The span processors the SDK is given, in registration order.
spanProcessors == <<"RootSpanContextProcessor", "BatchSpanProcessor">>

\* p.onEnd(s) for one span processor, on the state st the processors before
\* it left.  RootSpanContextProcessor propagates, then cleans up;
\* BatchSpanProcessor takes the span as it is at that moment, st.forwarded
\* keeps what it could see then.
processorOnEnd(p, st, s) ==
    IF p = "RootSpanContextProcessor"
    THEN LET root == onEndRoot(st.rootSpans, traceIdOf(s))
             entries == IF variant = "ts"
                        THEN onEndEntries(st.attributes[s], root, s)
                        ELSE onEndEntriesJs(st.attributes[s], root, s)
         IN [st EXCEPT
               !.attributes = IF DOMAIN entries = {} \/ root = undefined THEN @
                              ELSE setAttributes(@, root, entries),
               !.rootSpans = IF variant = "ts"
                             THEN onEndRoots(@, root, s, traceIdOf(s))
                             ELSE onEndRootsJs(@, traceIdOf(s), spans[s].parentSpanId),
               !.written = Written(root, entries),
               !.raised = onEndRaised(variant, root, entries)]
    ELSE [st EXCEPT !.forwarded = [span |-> s, attributes |-> st.attributes,
                                   rootSpans |-> st.rootSpans]]

\* ps.forEach(p => p.onEnd(s)); a processor that throws ends the loop.
RECURSIVE forEachOnEnd(_, _, _)
forEachOnEnd(ps, st, s) ==
    IF ps = <<>> \/ st.raised THEN st
    ELSE forEachOnEnd(Tail(ps), processorOnEnd(Head(ps), st, s), s)

\* span.end(): onEnd(span) of every span processor runs, in order.
EndSpan(s) ==
    /\ s \in Live
    /\ LET st == forEachOnEnd(spanProcessors,
                              [attributes |-> attributes, rootSpans |-> rootSpans,
                               written |-> {}, raised |-> FALSE,
                               forwarded |-> NotForwarded], s)
       IN
       /\ attributes' = st.attributes
       /\ rootSpans' = st.rootSpans
       /\ last' = [Event("onEnd", s, MapGet(rootSpans, traceIdOf(s)),
                         st.written, undefined, st.raised)
                   EXCEPT !.forwarded = st.forwarded]
    /\ ended' = ended \cup {s}
    /\ UNCHANGED <<variant, spans, rootSpanMap, calls>>

\* Business logic: span.setAttributes(obj) on a running span.
SpanSetAttributes(s, obj) ==
    /\ s \in Live
    /\ calls < MaxCalls
    /\ calls' = calls + 1
    /\ attributes' = setAttributes(attributes, s, obj)
    /\ last' = Event("setAttributes", s, MapGet(rootSpans, traceIdOf(s)),
                     Written(s, obj), undefined, FALSE)
    /\ UNCHANGED <<variant, spans, ended, rootSpans, rootSpanMap>>

\* trace.getActiveSpan() in a call from business logic: none, or a running span.
ActiveSpans == Live \cup {undefined}

\* The processor's entry for the trace of the active span.
StoredFor(active) ==
    IF active = undefined THEN undefined ELSE MapGet(rootSpans, traceIdOf(active))

\* RootSpanUtil.withRootSpan(fn), where fn returns result.
WithRootSpan(active, result) ==
    /\ active \in ActiveSpans
    /\ calls < MaxCalls
    /\ calls' = calls + 1
    /\ rootSpanMap' = IF variant = "ts" THEN withRootSpanMap(rootSpanMap, active)
                                        ELSE withRootSpanMapJs(rootSpanMap, active)
    /\ LET r == IF variant = "ts" THEN withRootSpanFn(active, result)
                                  ELSE withRootSpanFnJs(active, result)
       IN last' = [Event("withRootSpan", active, StoredFor(active), {}, r.ret, FALSE)
                   EXCEPT !.fn = result, !.invoked = r.invoked]
    /\ UNCHANGED <<variant, spans, ended, attributes, rootSpans>>

\* RootSpanUtil.setRootAttribute(key, value)
SetRootAttribute(active, kv) ==
    /\ active \in ActiveSpans
    /\ calls < MaxCalls
    /\ calls' = calls + 1
    /\ LET r == IF variant = "ts" THEN setRootAttributeTarget(rootSpanMap, active)
                                  ELSE setRootAttributeTargetJs(rootSpanMap, active)
       IN
       /\ attributes' = IF r.target = undefined THEN attributes
                        ELSE setAttribute(attributes, r.target, kv[1], kv[2])
       /\ last' = Event("setRootAttribute", active, StoredFor(active),
                        IF r.target = undefined THEN {} ELSE {<<r.target, kv[1]>>},
                        undefined, r.raised)
    /\ UNCHANGED <<variant, spans, ended, rootSpans, rootSpanMap>>

\* RootSpanUtil.getRootSpan(), which only the "ts" generation has.
GetRootSpan(active) ==
    /\ variant = "ts"
    /\ active \in ActiveSpans
    /\ calls < MaxCalls
    /\ calls' = calls + 1
    /\ last' = Event("getRootSpan", active, StoredFor(active), {},
                     getRootSpan(rootSpanMap, active), FALSE)
    /\ UNCHANGED <<variant, spans, ended, attributes, rootSpans, rootSpanMap>>

\* shutdownRoots that clears nothing
shutdownRootsKeep(roots) == roots

\* RootSpanContextProcessor.shutdown(): the map is cleared.
shutdownRoots(roots) == {}

\* The processor is shut down; the promise it returns is resolved.
Shutdown ==
    /\ rootSpans' = shutdownRoots(rootSpans)
    /\ last' = Event("shutdown", undefined, undefined, {}, undefined, FALSE)
    /\ UNCHANGED <<variant, spans, ended, attributes, rootSpanMap, calls>>

\* The operations both generations have.
NextJs ==
    \/ \E s \in SpanIds, t \in TraceIds, ctx \in Contexts : StartSpan(s, t, ctx)
    \/ \E s \in SpanIds : StartAgain(s)
    \/ \E s \in SpanIds : EndSpan(s)
    \/ \E s \in SpanIds, obj \in AttrObjects : SpanSetAttributes(s, obj)
    \/ \E a \in SpanIds \cup {undefined}, r \in FnResults : WithRootSpan(a, r)
    \/ \E a \in SpanIds \cup {undefined}, kv \in RootAttrs : SetRootAttribute(a, kv)

Next ==
    \/ NextJs
    \/ \E a \in SpanIds \cup {undefined} : GetRootSpan(a)

\* Either generation.
Spec == Init /\ [][Next]_vars

\* src/tracing.ts (and src/unnamed/part_000, src/tracing.js 190-277)
InitTs == Init /\ variant = "ts"
SpecTs == InitTs /\ [][Next]_vars

\* src/tracing.js 1-189
InitJs == Init /\ variant = "js"
SpecJs == InitJs /\ [][NextJs]_vars

\* src/tracing.ts, with shutdown of the processor at any moment.
NextShutdown ==
    \/ Next
    \/ Shutdown

SpecShutdown == InitTs /\ [][NextShutdown]_vars

\* ---------------------------------------------------------------- claims
Parentless(s) == spans[s].parentSpanId = undefined

\* The ending span of an onEnd whose trace had another span registered as root.
ChildEnded ==
    last.op = "onEnd" /\ last.stored # undefined /\ last.stored # last.span

\* The propagation policy as specified: prefix error_, or one of two exact keys.
PolicyKey(k) ==
    startsWith(k, "error_") \/ k = "custom_attribute" \/ k = "merchant_name"

\* C1: the registry holds at most one entry per traceId, and every entry is a
\* span of that trace that had no parent when it started.
C1_OneParentlessRootPerTrace ==
    /\ \A e1, e2 \in rootSpans : e1[1] = e2[1] => e1 = e2
    /\ \A e \in rootSpans :
          e[2] \in Created /\ spans[e[2]].traceId = e[1] /\ Parentless(e[2])

\* Two traces are registered while a third span, a child, runs.
C1_Witness ==
    /\ Cardinality(rootSpans) = 2
    /\ \E s \in Live : ~Parentless(s)

\* C2: when the span stored as root of its trace ends, the lookup of the
\* trace is absent afterwards and the registry has exactly one entry less.
C2_RootEndRemovesEntry ==
    [][\A s \in SpanIds :
          (s \in ended' \ ended /\ MapGet(rootSpans, traceIdOf(s)) = s)
          => /\ MapGet(rootSpans', traceIdOf(s)) = undefined
             /\ Cardinality(rootSpans') = Cardinality(rootSpans) - 1]_vars

\* A stored root has just ended while another trace stays registered.
C2_Witness ==
    /\ last.op = "onEnd" /\ last.stored = last.span
    /\ ~MapHas(rootSpans, traceIdOf(last.span))
    /\ rootSpans # {}

\* C3: when a non-root span ends while its trace's root is registered, a key
\* of the ending span is copied onto the root, with its value, if and only if
\* it starts with error_ or is custom_attribute or merchant_name.
C3_CopiedIffPolicyKey ==
    (ChildEnded /\ ~Parentless(last.span)) =>
        \A k \in DOMAIN attributes[last.span] :
            /\ <<last.stored, k>> \in last.written <=> PolicyKey(k)
            /\ PolicyKey(k) => /\ k \in DOMAIN attributes[last.stored]
                               /\ attributes[last.stored][k] = attributes[last.span][k]

\* C4: after a child's end the root's value for every policy key of the child
\* is the child's value, whatever the root held before.
C4_LastWriteWins ==
    ChildEnded =>
        \A k \in DOMAIN attributes[last.span] :
            PolicyKey(k) => /\ k \in DOMAIN attributes[last.stored]
                            /\ attributes[last.stored][k] = attributes[last.span][k]

\* A second child has ended after a first one with another custom_attribute;
\* the root holds the second child's value.
C4_Witness ==
    /\ ChildEnded
    /\ "custom_attribute" \in DOMAIN attributes[last.span]
    /\ \E c \in ended \ {last.span, last.stored} :
          /\ traceIdOf(c) = traceIdOf(last.span)
          /\ "custom_attribute" \in DOMAIN attributes[c]
          /\ attributes[c]["custom_attribute"] # attributes[last.span]["custom_attribute"]
    /\ attributes[last.stored]["custom_attribute"] = attributes[last.span]["custom_attribute"]

\* C5: setRootAttribute called with an active span whose trace has a live
\* (registered) root sets the key on that root, and on no other span.
C5_SetsOnLiveRoot ==
    (last.op = "setRootAttribute" /\ last.span # undefined /\ last.stored # undefined)
    => \E k \in {kv[1] : kv \in RootAttrs} : last.written = {<<last.stored, k>>}

\* C6: for every active span, the root the accessor resolves is the root the
\* processor's registry holds for the span's trace.
C6_AccessorAgreesWithRegistry ==
    \A a \in Live : getRootSpan(rootSpanMap, a) = MapGet(rootSpans, traceIdOf(a))

\* C7: the entry of a trace is removed in a step if and only if the span
\* stored as the trace's root ends in that step.
C7_RemovedIffStoredRootEnds ==
    [][\A t \in TraceIds :
          (MapHas(rootSpans, t) /\ ~MapHas(rootSpans', t))
          <=> (MapHas(rootSpans, t) /\ MapGet(rootSpans, t) \in ended' \ ended)]_vars

\* C8: onStart for a parentless span whose trace already has an entry leaves
\* the registry as it was.
C8_FirstWriterWins ==
    [][(/\ last'.op \in {"onStart", "onStartAgain"}
        /\ spans'[last'.span].parentSpanId = undefined
        /\ MapHas(rootSpans, spans'[last'.span].traceId))
       => rootSpans' = rootSpans]_vars

\* C9: every attribute write of an onEnd is on the registered root of the
\* ending span's trace, which is another span; the end of the root itself
\* writes nothing.
C9_PropagationTargetsOtherRoot ==
    last.op = "onEnd" =>
        /\ \A w \in last.written :
              /\ w[1] = last.stored
              /\ w[1] # last.span
              /\ traceIdOf(w[1]) = traceIdOf(last.span)
        /\ last.stored = last.span => last.written = {}

\* A root that holds policy keys has just ended, as the stored root.
C9_Witness ==
    /\ last.op = "onEnd" /\ last.stored = last.span
    /\ \E k \in DOMAIN attributes[last.span] : PolicyKey(k)

\* C10: setRootAttribute without an active span changes no attribute and no
\* map entry, and does not throw.
C10_NoActiveSpanNoOp ==
    [][(last'.op = "setRootAttribute" /\ last'.span = undefined)
       => /\ attributes' = attributes
          /\ rootSpans' = rootSpans
          /\ rootSpanMap' = rootSpanMap
          /\ last'.written = {}
          /\ ~last'.raised]_vars

\* setRootAttribute has run without an active span while roots were
\* registered in both maps.
C10_Witness ==
    /\ last.op = "setRootAttribute" /\ last.span = undefined
    /\ rootSpans # {} /\ rootSpanMap # {}

\* C11: setRootAttribute called with an active span whose trace has no entry
\* in the accessor's map sets the key, with its value, on the active span
\* and on no other span.
C11_FallsBackToActiveSpan ==
    (/\ last.op = "setRootAttribute"
     /\ last.span # undefined
     /\ MapGet(rootSpanMap, traceIdOf(last.span)) = undefined)
    => \E kv \in RootAttrs :
          /\ last.written = {<<last.span, kv[1]>>}
          /\ kv[1] \in DOMAIN attributes[last.span]
          /\ attributes[last.span][kv[1]] = kv[2]

\* C12: a span start sets, for every baggage entry (k, v) of the parent
\* context it is given, attribute baggage.<k> = v on the started span, and
\* leaves the attributes of every other span as they were.
C12_BaggageOnStartedSpanOnly ==
    [][last'.op \in {"onStart", "onStartAgain"}
       => /\ \A k \in DOMAIN spans'[last'.span].parentContext.baggage :
                /\ ("baggage." \o k) \in DOMAIN attributes'[last'.span]
                /\ attributes'[last'.span]["baggage." \o k]
                      = spans'[last'.span].parentContext.baggage[k]
          /\ \A o \in SpanIds \ {last'.span} : attributes'[o] = attributes[o]]_vars

\* A span has just started with baggage while a span started with other
\* baggage runs and has not got the entry.
C12_Witness ==
    /\ last.op = "onStart"
    /\ spans[last.span].parentContext.baggage # EmptyObject
    /\ \E o \in Live \ {last.span} :
          /\ spans[o].parentContext.baggage # spans[last.span].parentContext.baggage
          /\ \A k \in DOMAIN spans[last.span].parentContext.baggage :
                ("baggage." \o k) \notin DOMAIN attributes[o]

\* C13: every entry of a root-tracking map, the processor's registry and the
\* accessor's map alike, refers to a span that has started and not yet ended;
\* so no entry remains once every started root has ended.
C13_EntriesAreRunningSpans ==
    \A e \in rootSpans \cup rootSpanMap : e[2] \in Live

\* C14: shutdown leaves the processor's registry empty and does not throw;
\* a shutdown that follows a shutdown leaves every part of the state as the
\* first one left it.
C14_ShutdownIdempotent ==
    [][last'.op = "shutdown"
       => /\ rootSpans' = {}
          /\ ~last'.raised
          /\ last.op = "shutdown" => vars' = vars]_vars

\* The processor has been shut down while a root span was running and the
\* accessor's map held an entry.
C14_Witness ==
    /\ last.op = "shutdown"
    /\ rootSpans = {}
    /\ rootSpanMap # {}
    /\ \E s \in Live : Parentless(s)

\* C15: the end of a span whose trace has no registry entry leaves the
\* registry and every span's attributes as they were, and does not throw.
C15_EndWithoutEntryIsNoOp ==
    [][(last'.op = "onEnd" /\ ~MapHas(rootSpans, traceIdOf(last'.span)))
       => /\ rootSpans' = rootSpans
          /\ attributes' = attributes
          /\ last'.written = {}
          /\ ~last'.raised]_vars

\* A span that holds policy keys has ended while its trace had no entry and
\* another trace was registered.
C15_Witness ==
    /\ last.op = "onEnd" /\ last.stored = undefined
    /\ \E k \in DOMAIN attributes[last.span] : PolicyKey(k)
    /\ rootSpans # {}

\* The parentless ancestor of span s.
RECURSIVE RootOf(_)
RootOf(s) == IF Parentless(s) THEN s ELSE RootOf(spans[s].parentSpanId)

\* C16: when a child ends after the root it descends from has ended, the
\* ended root's attributes stay as they are; with the trace's entry gone the
\* end writes no attribute at all.
C16_LateChildPropagatesNothing ==
    [][(/\ last'.op = "onEnd"
        /\ ~Parentless(last'.span)
        /\ RootOf(last'.span) \in ended)
       => /\ attributes'[RootOf(last'.span)] = attributes[RootOf(last'.span)]
          /\ ~MapHas(rootSpans, traceIdOf(last'.span))
                => attributes' = attributes /\ last'.written = {}]_vars

\* A child that holds policy keys has ended after its root, which had been
\* the registered root of the trace and holds none of the child's keys.
C16_Witness ==
    /\ last.op = "onEnd" /\ last.stored = undefined
    /\ ~Parentless(last.span)
    /\ RootOf(last.span) \in ended
    /\ \E k \in DOMAIN attributes[last.span] :
          PolicyKey(k) /\ k \notin DOMAIN attributes[RootOf(last.span)]

\* C17: at every span end the propagation writes go to the root the registry
\* held before the cleanup, and the exporter's processor is handed the span
\* only when propagation and cleanup are done: what it can see of the
\* attributes and of the registry is their state after the end event.
C17_ForwardedAfterPropagationAndCleanup ==
    last.op = "onEnd" =>
        /\ \A w \in last.written : w[1] = last.stored
        /\ last.forwarded.span = last.span
        /\ last.forwarded.attributes = attributes
        /\ last.forwarded.rootSpans = rootSpans

\* A child has ended, its keys were set on the root, and the exporter's
\* processor was handed the child.
C17_Witness ==
    /\ last.op = "onEnd"
    /\ last.written # {}
    /\ last.forwarded.span = last.span

\* C18: an operation on a span of one trace (a start, an end, or an accessor
\* call while that span is active) leaves, for every other trace, the entry
\* of both maps and the attributes of all its spans as they were.
C18_TraceIsolation ==
    [][last'.span # undefined
       => \A t \in TraceIds \ {spans'[last'.span].traceId} :
             /\ MapGet(rootSpans', t) = MapGet(rootSpans, t)
             /\ MapGet(rootSpanMap', t) = MapGet(rootSpanMap, t)
             /\ \A s \in Created :
                   spans[s].traceId = t => attributes'[s] = attributes[s]]_vars

\* A child's end has propagated to its root while the root of another trace
\* runs and is the entry of both maps for that trace.
C18_Witness ==
    /\ last.op = "onEnd"
    /\ last.written # {}
    /\ \E o \in Live :
          /\ traceIdOf(o) # traceIdOf(last.span)
          /\ MapGet(rootSpans, traceIdOf(o)) = o
          /\ MapGet(rootSpanMap, traceIdOf(o)) = o

\* C19: withRootSpan called while a span that has a parent is active leaves
\* the accessor's map as it was: it neither creates nor replaces the entry
\* of the trace.
C19_WithRootSpanStoresParentlessOnly ==
    [][(last'.op = "withRootSpan" /\ last'.span # undefined
                                 /\ ~Parentless(last'.span))
       => rootSpanMap' = rootSpanMap]_vars

\* C20: onEnd leaves the attributes of the ending span as they were, and the
\* exporter's processor is handed the span with exactly those attributes;
\* the only span whose attributes an onEnd changes is the registered root
\* of the trace, a span other than the ending one.
C20_EndingSpanUnchanged ==
    [][last'.op = "onEnd"
       => /\ attributes'[last'.span] = attributes[last'.span]
          /\ last'.forwarded.attributes[last'.span] = attributes[last'.span]
          /\ \A s \in SpanIds :
                attributes'[s] # attributes[s]
                => s # last'.span /\ s = MapGet(rootSpans, traceIdOf(last'.span))]_vars

\* A child has ended and its policy keys were set on the root; the child
\* still holds a key the policy does not copy, and the root does not.
C20_Witness ==
    /\ last.op = "onEnd"
    /\ last.written # {}
    /\ \E k \in DOMAIN attributes[last.span] :
          ~PolicyKey(k) /\ k \notin DOMAIN attributes[last.stored]
    /\ last.forwarded.attributes[last.span] = attributes[last.span]

\* The (span, key) pairs whose attribute a step adds, changes or removes.
Changed ==
    {w \in SpanIds \X (UNION {DOMAIN attributes[s] \cup DOMAIN attributes'[s] : s \in SpanIds}) :
        \/ (w[2] \in DOMAIN attributes[w[1]]) # (w[2] \in DOMAIN attributes'[w[1]])
        \/ /\ w[2] \in DOMAIN attributes[w[1]] \cap DOMAIN attributes'[w[1]]
           /\ attributes[w[1]][w[2]] # attributes'[w[1]][w[2]]}

\* C21: setRootAttribute changes nothing but the one attribute it writes,
\* which has the given key, on one span, and one it does write when a span
\* is active; it leaves both maps as they were.  getRootSpan changes no map
\* and no attribute.
C21_AccessorFrame ==
    [][/\ last'.op = "setRootAttribute"
          => /\ rootSpans' = rootSpans
             /\ rootSpanMap' = rootSpanMap
             /\ Changed \subseteq last'.written
             /\ Cardinality(last'.written) <= 1
             /\ \A w \in last'.written : w[2] \in {kv[1] : kv \in RootAttrs}
             /\ last'.span # undefined => Cardinality(last'.written) = 1
       /\ last'.op = "getRootSpan"
          => /\ rootSpans' = rootSpans
             /\ rootSpanMap' = rootSpanMap
             /\ attributes' = attributes]_vars

\* setRootAttribute has written a key on the root the accessor's map holds,
\* a span other than the active one, which does not have the key.
C21_Witness ==
    /\ last.op = "setRootAttribute"
    /\ last.span # undefined
    /\ \E w \in last.written :
          /\ w[1] # last.span
          /\ w[2] \in DOMAIN attributes[w[1]]
          /\ w[2] \notin DOMAIN attributes[last.span]

\* C22: the listener that takes a span for a root when its parent context
\* carries no span and the listener that takes it for one when it has no
\* parentSpanId leave the same registry after every start and end event:
\* from the registry either holds, both compute the same next registry.
C22_RootDetectionVariantsAgree ==
    [][/\ last'.op \in {"onStart", "onStartAgain"}
          => onStartRoots(rootSpans, last'.span, spans'[last'.span].traceId,
                          spans'[last'.span].parentContext)
             = onStartRootsJs(rootSpans, last'.span, spans'[last'.span].traceId,
                              spans'[last'.span].parentSpanId)
       /\ last'.op = "onEnd"
          => onEndRoots(rootSpans, onEndRoot(rootSpans, traceIdOf(last'.span)),
                        last'.span, traceIdOf(last'.span))
             = onEndRootsJs(rootSpans, traceIdOf(last'.span),
                            spans[last'.span].parentSpanId)]_vars

C24_NoListenerWriteAfterEnd ==
    [][last'.op \in {"onStart", "onStartAgain", "onEnd"}
       => /\ \A w \in last'.written : w[1] \notin ended
          /\ \A s \in ended : attributes'[s] = attributes[s]]_vars

\* A span's end has propagated to the root after another span of the trace,
\* one that holds policy keys, had ended.
C24_Witness ==
    /\ last.op = "onEnd"
    /\ last.written # {}
    /\ \E e \in ended \ {last.span} :
          /\ traceIdOf(e) = traceIdOf(last.span)
          /\ \E k \in DOMAIN attributes[e] : PolicyKey(k)
====
